---- MODULE Spec2Model ----
(***************************************************************************)
(* Real-time console transcription (src/main.py).                          *)
(*                                                                         *)
(* Two threads: the main thread (module imports, main()) and the audio     *)
(* driver's thread, which runs audio_callback once per delivered block.    *)
(* Text is a sequence of one-character strings, the console is a terminal  *)
(* that interprets carriage return and line feed, and the recognizer is a  *)
(* black box whose answers are drawn from small sets.                      *)
(***************************************************************************)
EXTENDS Integers, Sequences, FiniteSets, TLC

VARIABLES
    pc,            \* main thread: the statement it is about to execute
    pending,       \* exception propagating out of the 'with stream' body
    interruptedAt, \* where the main thread was when Ctrl+C arrived
    e,             \* what an 'except Exception as e' clause of main caught
    model,         \* Model(MODEL_PATH): "unloaded" | "loaded"
    recognizer,    \* the global recognizer: "None" | "KaldiRecognizer"
    stream,        \* sd.InputStream: "none" | "open" | "active" | "aborted" | "closed"
    closeCalls,    \* number of times the stream was closed
    exitCode,      \* <<status>> once the process has ended, <<>> while it runs
    stdout,        \* standard output: [writes, lines, seg] as written, [rows, cur, col] as shown
    stderr,        \* lines written to the error channel
    cb,            \* callback thread: "idle" | "read" | "present"
    cbFinal,       \* what AcceptWaveform returned for the block in flight
    cbResult,      \* the "text" / "partial" string the recognizer returned for it
    cbText,        \* text / partial_text: that string, stripped
    cbChunk,       \* the arrival number of the block in flight
    cbCalls,       \* recognizer calls made for it: [AcceptWaveform, Result, PartialResult]
    cbSeen,        \* blocks the recognizer had been fed when its result was read
    arrived,       \* blocks the driver has delivered
    fed,           \* blocks the recognizer has been fed
    outcomes,      \* blocks processed so far: <<[final, raw, chunk, seen, calls, writes]>>
    faults,        \* exceptions that left audio_callback
    shown          \* the latest status-line write: [text, by]

vars == <<pc, pending, interruptedAt, e, model, recognizer, stream, closeCalls,
          exitCode, stdout, stderr, cb, cbFinal, cbResult, cbText, cbChunk, cbCalls,
          cbSeen, arrived, fed, outcomes, faults, shown>>

-----------------------------------------------------------------------------
(* Bounds *)

\* blocks the audio driver delivers in one run
MaxChunks == 3

\* blocks that carry a driver status flag in one run
MaxFlagged == 1

-----------------------------------------------------------------------------
(* Text *)

\* the column width of every pad and clear
PadWidth == 80

CR == "\r"
LF == "\n"

Max(a, b) == IF a >= b THEN a ELSE b

Spaces(n) == [i \in 1..n |-> " "]

\* str.ljust(width): pad on the right, never truncate
LJust(s, width) == s \o Spaces(Max(0, width - Len(s)))

\* s holds nothing but blanks
Blank(s) == \A i \in 1..Len(s) : s[i] = " "

\* str.lstrip(): s from its first character that is not a blank
LStrip(s) ==
    IF Blank(s) THEN <<>>
    ELSE SubSeq(s, CHOOSE i \in 1..Len(s) :
                       s[i] # " " /\ \A j \in 1..(i - 1) : s[j] = " ",
                Len(s))

\* str.rstrip(): s up to its last character that is not a blank
RStrip(s) ==
    IF Blank(s) THEN <<>>
    ELSE SubSeq(s, 1, Len(s) - CHOOSE k \in 0..(Len(s) - 1) :
                                   /\ s[Len(s) - k] # " "
                                   /\ \A j \in 0..(k - 1) : s[Len(s) - j] = " ")

\* str.strip()
Strip(s) == RStrip(LStrip(s))

Prompt ==
    << "[", "L", "i", "s", "t", "e", "n", "i", "n", "g", ".", ".", ".", " ",
       "S", "p", "e", "a", "k", " ", "n", "o", "w", "]" >>

SpeakingPrefix ==
    << "[", "S", "p", "e", "a", "k", "i", "n", "g", ".", ".", ".", " " >>

TranscriptionPrefix ==
    << "T", "R", "A", "N", "S", "C", "R", "I", "P", "T", "I", "O", "N", ":", " " >>

Hello == << "h", "e", "l", "l", "o" >>

HelloWorld == << "h", "e", "l", "l", "o", " ", "w", "o", "r", "l", "d" >>

\* " hello ": the word with blanks around it
HelloBlanks == << " " >> \o Hello \o << " " >>

\* a hypothesis whose "[Speaking... ...]" line is one column wider than the pad
LongText == [i \in 1..(PadWidth - Len(SpeakingPrefix)) |-> "x"]

\* the strings the recognizer may put in "text" / "partial"
RawTexts == { <<>>, HelloBlanks, HelloWorld, LongText }

-----------------------------------------------------------------------------
(* Standard output.  As written it is a stream of characters: seg is the  *)
(* text since the last carriage return or line feed, lines the texts that  *)
(* a line feed ended.  As shown it is a terminal wider than any line        *)
(* written here: rows are the finished lines, cur the cells of the line the *)
(* cursor is on, col the cursor's column.                                   *)

\* printable characters s arrive at the terminal: they overwrite the cells
\* from the cursor on and move the cursor right
Put(t, s) ==
    [t EXCEPT
       !.seg = t.seg \o s,
       !.cur = [i \in 1..Max(Len(t.cur), t.col + Len(s) - 1) |->
                   IF i >= t.col /\ i < t.col + Len(s) THEN s[i - t.col + 1]
                   ELSE IF i <= Len(t.cur) THEN t.cur[i] ELSE " "],
       !.col = t.col + Len(s)]

\* a control character arrives: carriage return moves the cursor to the first
\* column, line feed ends the line and starts an empty one
Control(t, c) ==
    IF c = CR THEN [t EXCEPT !.seg = <<>>, !.col = 1]
    ELSE [t EXCEPT !.lines = Append(t.lines, t.seg), !.seg = <<>>,
                   !.rows = Append(t.rows, RStrip(t.cur)), !.cur = <<>>, !.col = 1]

\* the positions of s that hold a control character
Controls(s) == {i \in 1..Len(s) : s[i] \in {CR, LF}}

\* sys.stdout.write(s): the characters of s arrive in order
RECURSIVE Write(_, _)
Write(t, s) ==
    IF Controls(s) = {} THEN Put(t, s)
    ELSE LET k == CHOOSE i \in Controls(s) : \A j \in Controls(s) : i <= j
             u == Control(Put(t, SubSeq(s, 1, k - 1)), s[k])
         IN Write(u, SubSeq(s, k + 1, Len(s)))

\* one call of sys.stdout.write or print reaches the stream
Called(t) == [t EXCEPT !.writes = @ + 1]

\* print(s): the text and a line feed
PrintLine(t, s) == Write(Called(t), s \o <<LF>>)

\* what the user sees on the line the cursor is on
Visible(t) == RStrip(t.cur)

-----------------------------------------------------------------------------
(* Initial state: the interpreter is about to run the module's first line *)

\* the recognizer calls of an invocation that has made none yet
NoCalls == [AcceptWaveform |-> 0, Result |-> 0, PartialResult |-> 0]

Init ==
    /\ pc = "imports"
    /\ pending = "none"
    /\ interruptedAt = "none"
    /\ e = "none"
    /\ model = "unloaded"
    /\ recognizer = "None"
    /\ stream = "none"
    /\ closeCalls = 0
    /\ exitCode = <<>>
    /\ stdout = [writes |-> 0, lines |-> <<>>, seg |-> <<>>,
                 rows |-> <<>>, cur |-> <<>>, col |-> 1]
    /\ stderr = <<>>
    /\ cb = "idle"
    /\ cbFinal = FALSE
    /\ cbResult = <<>>
    /\ cbText = <<>>
    /\ cbChunk = 0
    /\ cbCalls = NoCalls
    /\ cbSeen = 0
    /\ arrived = 0
    /\ fed = 0
    /\ outcomes = <<>>
    /\ faults = 0
    /\ shown = [text |-> <<>>, by |-> "none"]

\* exit statuses of an interpreter ended by an uncaught KeyboardInterrupt
\* (1 with a traceback, or 130 when the interpreter re-raises SIGINT)
InterruptExit == {1, 130}

\* the process ends with status code
Exit(code) ==
    /\ pc' = "exited"
    /\ exitCode' = <<code>>

\* an exception nothing catches: traceback on stderr, exit status 1
Uncaught(name) ==
    /\ stderr' = Append(stderr, <<"Traceback", name>>)
    /\ Exit(1)

\* the messages main and the module level print, one line each
ImportMessages ==
    << <<"FATAL ERROR: The 'vosk' package could not be imported.">>,
       <<"Please run: pip install vosk">> >>

BannerMessages ==
    << <<"--- Real-time Vosk Transcription ---">>,
       <<"1. Make sure you have downloaded a Vosk model (e.g., MODEL_PATH).">>,
       <<"2. Set the correct path in the MODEL_PATH variable.">>,
       <<"-----------------------------------------------------">> >>

LoadFailedMessages ==
    << <<LF, "FATAL ERROR: Could not load Vosk model from MODEL_PATH.">>,
       <<"Ensure the model folder exists and the path is correct.">>,
       <<"e">> >>

LoadedMessages ==
    << <<"Model loaded successfully. Starting microphone input.">>,
       <<"-----------------------------------------------------">> >>

OpenFailedMessages ==
    << <<"FATAL ERROR: Could not start audio stream. Check 'sounddevice' setup or device access.">>,
       <<"e">> >>

\* print(m) for each message m in turn; a message is one cell of the line
RECURSIVE PrintAll(_, _)
PrintAll(t, ms) ==
    IF ms = <<>> THEN t ELSE PrintAll(PrintLine(t, Head(ms)), Tail(ms))

mainVars == <<pc, pending, interruptedAt, e, model, recognizer, closeCalls, exitCode>>
callbackVars == <<cb, cbFinal, cbResult, cbText, cbChunk, cbCalls, cbSeen,
                  arrived, fed, outcomes, faults>>

-----------------------------------------------------------------------------
(* Main thread: module level *)

\* what a plain import of a package that is not installed raises
NoSounddevice == "ModuleNotFoundError: No module named 'sounddevice'"
NoVosk == "ModuleNotFoundError: No module named 'vosk'"

\* import sounddevice as sd, numpy, time, sys, json, vosk: plain imports,
\* outside any try
Imports ==
    /\ pc = "imports"
    /\ \E r \in {"ok", NoSounddevice, NoVosk} :
         IF r = "ok"
         THEN /\ pc' = "from_import"
              /\ UNCHANGED <<exitCode, stderr>>
         ELSE Uncaught(r)
    /\ UNCHANGED <<pending, interruptedAt, e, model, recognizer, stream, closeCalls>>
    /\ UNCHANGED <<stdout, shown>>
    /\ UNCHANGED callbackVars

\* try: from vosk import ...; SetLogLevel(-1)  except ImportError: ... sys.exit(1)
FromImport ==
    /\ pc = "from_import"
    /\ \E found \in BOOLEAN :
         IF found
         THEN /\ pc' = "banner"
              /\ UNCHANGED <<exitCode, stdout>>
         ELSE /\ stdout' = PrintAll(stdout, ImportMessages)
              /\ Exit(1)
    /\ UNCHANGED <<pending, interruptedAt, e, model, recognizer, stream, closeCalls>>
    /\ UNCHANGED <<stderr, shown>>
    /\ UNCHANGED callbackVars

-----------------------------------------------------------------------------
(* Main thread: main() *)

\* the four prints that open main
main_banner ==
    /\ pc = "banner"
    /\ stdout' = PrintAll(stdout, BannerMessages)
    /\ pc' = "load"
    /\ UNCHANGED <<pending, interruptedAt, e, model, recognizer, stream, closeCalls>>
    /\ UNCHANGED <<exitCode, stderr, shown>>
    /\ UNCHANGED callbackVars

\* the handler as it would be without its return: main goes on to the stream
main_load_failed_without_return(raised) ==
    /\ e' = raised
    /\ stdout' = PrintAll(stdout, LoadFailedMessages)
    /\ pc' = "open"
    /\ UNCHANGED exitCode

\* except Exception as e: three prints and return, which ends the process
\* with the status of a script that ran to its end
main_load_failed(raised) ==
    /\ e' = raised
    /\ stdout' = PrintAll(stdout, LoadFailedMessages)
    /\ Exit(0)

\* the load as it would be without 'global recognizer': the assignment binds
\* a local name and the module's recognizer stays None
main_load_without_global ==
    /\ pc = "load"
    /\ \E r \in {"ok", "Model raises", "KaldiRecognizer raises"} :
         /\ model' = IF r = "Model raises" THEN model ELSE "loaded"
         /\ IF r = "ok"
            THEN /\ pc' = "open"
                 /\ UNCHANGED <<e, exitCode, stdout>>
            ELSE main_load_failed(r)
    /\ UNCHANGED <<pending, interruptedAt, recognizer, stream, closeCalls, stderr, shown>>
    /\ UNCHANGED callbackVars

\* global recognizer; try: model = Model(MODEL_PATH);
\* recognizer = KaldiRecognizer(model, SAMPLE_RATE)
main_load ==
    /\ pc = "load"
    /\ \E r \in {"ok", "Model raises", "KaldiRecognizer raises"} :
         /\ model' = IF r = "Model raises" THEN model ELSE "loaded"
         /\ recognizer' = IF r = "ok" THEN "KaldiRecognizer" ELSE recognizer
         /\ IF r = "ok"
            THEN /\ pc' = "open"
                 /\ UNCHANGED <<e, exitCode, stdout>>
            ELSE main_load_failed(r)
    /\ UNCHANGED <<pending, interruptedAt, stream, closeCalls, stderr, shown>>
    /\ UNCHANGED callbackVars

\* except Exception as e: two prints and return
main_open_failed(t) ==
    /\ e' = "InputStream raises"
    /\ stdout' = PrintAll(t, OpenFailedMessages)
    /\ Exit(0)

\* the two prints, then try: stream = sd.InputStream(..., callback=audio_callback)
main_open ==
    /\ pc = "open"
    /\ \E opened \in BOOLEAN :
         IF opened
         THEN /\ stream' = "open"
              /\ stdout' = PrintAll(stdout, LoadedMessages)
              /\ pc' = "with"
              /\ UNCHANGED <<e, exitCode>>
         ELSE /\ main_open_failed(PrintAll(stdout, LoadedMessages))
              /\ UNCHANGED stream
    /\ UNCHANGED <<pending, interruptedAt, model, recognizer, closeCalls, stderr, shown>>
    /\ UNCHANGED callbackVars

\* with stream: entering the context manager starts the stream; when the
\* start raises, neither the body nor the exit of the context manager runs
\* and no handler is in scope
main_with_enter ==
    /\ pc = "with"
    /\ \E started \in BOOLEAN :
         IF started
         THEN /\ stream' = "active"
              /\ pc' = "prompt"
              /\ UNCHANGED <<exitCode, stderr>>
         ELSE /\ Uncaught("PortAudioError")
              /\ UNCHANGED stream
    /\ UNCHANGED <<pending, interruptedAt, e, model, recognizer, closeCalls>>
    /\ UNCHANGED <<stdout, shown>>
    /\ UNCHANGED callbackVars

\* print("[Listening... Speak now]", end="", flush=True)
main_prompt ==
    /\ pc = "prompt"
    /\ stdout' = Write(Called(stdout), Prompt)
    /\ shown' = [text |-> Prompt, by |-> "main"]
    /\ pc' = "while"
    /\ UNCHANGED <<pending, interruptedAt, e, model, recognizer, stream, closeCalls>>
    /\ UNCHANGED <<exitCode, stderr>>
    /\ UNCHANGED callbackVars

\* while True: sd.sleep(1000)
main_wait ==
    /\ pc = "while"
    /\ pc' = "while"
    /\ UNCHANGED <<pending, interruptedAt, e, model, recognizer, stream, closeCalls>>
    /\ UNCHANGED <<exitCode, stdout, stderr, shown>>
    /\ UNCHANGED callbackVars

\* an exception other than KeyboardInterrupt raised inside the wait loop
main_wait_fault ==
    /\ pc = "while"
    /\ pending' = "Exception"
    /\ pc' = "with_exit"
    /\ UNCHANGED <<interruptedAt, e, model, recognizer, stream, closeCalls>>
    /\ UNCHANGED <<exitCode, stdout, stderr, shown>>
    /\ UNCHANGED callbackVars

\* the exit as it would be were the stream not under 'with': the exception
\* ends the process and nothing closes the stream
main_exit_without_close ==
    /\ pc = "with_exit"
    /\ cb = "idle"
    /\ stderr' = Append(stderr, <<"Traceback", pending>>)
    /\ \E code \in (IF pending = "KeyboardInterrupt" THEN InterruptExit ELSE {1}) :
         Exit(code)
    /\ UNCHANGED <<pending, interruptedAt, e, model, recognizer, stdout, shown>>
    /\ UNCHANGED <<stream, closeCalls>>
    /\ UNCHANGED callbackVars

\* leaving 'with stream' on an exception: the context manager stops the
\* stream, which waits for a callback in flight, and closes it; the
\* exception, which no handler catches, then ends the process
main_with_exit ==
    /\ pc = "with_exit"
    /\ cb = "idle"
    /\ stream' = "closed"
    /\ closeCalls' = closeCalls + 1
    /\ stderr' = Append(stderr, <<"Traceback", pending>>)
    /\ \E code \in (IF pending = "KeyboardInterrupt" THEN InterruptExit ELSE {1}) :
         Exit(code)
    /\ UNCHANGED <<pending, interruptedAt, e, model, recognizer, stdout, shown>>
    /\ UNCHANGED callbackVars

\* Ctrl+C: KeyboardInterrupt is raised in the main thread wherever it is.
\* No handler of the program catches it ('except Exception' and
\* 'except ImportError' do not); inside the body of 'with stream' it unwinds
\* through the context manager, elsewhere it ends the process at once.
KeyboardInterrupt ==
    /\ pc \notin {"exited", "with_exit"}
    /\ interruptedAt' = pc
    /\ IF pc \in {"prompt", "while"}
       THEN /\ pending' = "KeyboardInterrupt"
            /\ pc' = "with_exit"
            /\ UNCHANGED <<exitCode, stderr>>
       ELSE /\ stderr' = Append(stderr, <<"Traceback", "KeyboardInterrupt">>)
            /\ \E code \in InterruptExit : Exit(code)
            /\ UNCHANGED pending
    /\ UNCHANGED <<e, model, recognizer, stream, closeCalls, stdout, shown>>
    /\ UNCHANGED callbackVars

main ==
    \/ main_banner
    \/ main_load
    \/ main_open
    \/ main_with_enter
    \/ main_prompt
    \/ main_wait
    \/ main_wait_fault
    \/ main_with_exit

-----------------------------------------------------------------------------
(* Audio thread: audio_callback(indata, frames, time, status) *)

StatusLine == <<"SoundDevice Status", "flags">>

\* blocks that carried a status flag so far
Flagged == Cardinality({i \in 1..Len(stderr) : stderr[i] = StatusLine})

\* an exception leaves audio_callback: nothing in the function catches it;
\* the audio library reports it on stderr and aborts the stream, so the
\* driver delivers no further block
callback_raises(err, name) ==
    /\ faults' = faults + 1
    /\ stream' = "aborted"
    /\ stderr' = Append(err, <<"Traceback", name>>)
    /\ cb' = "idle"
    /\ UNCHANGED <<cbFinal, cbResult, cbText, cbSeen, outcomes, shown, stdout>>

\* a driver that calls audio_callback while an earlier call is still running
DriverReentrant == TRUE

\* the driver calls audio_callback from one thread, a block at a time: the
\* function itself takes no lock
DriverSerial == cb = "idle"

\* audio_bytes = indata.tobytes(); if recognizer.AcceptWaveform(audio_bytes):
\* (err is stderr as the status check left it)
AcceptWaveform(err) ==
    IF recognizer = "None"
    THEN /\ callback_raises(err, "AttributeError")
         /\ cbCalls' = NoCalls
         /\ UNCHANGED fed
    ELSE /\ cbCalls' = [NoCalls EXCEPT !.AcceptWaveform = 1]
         /\ fed' = fed + 1
         /\ \E r \in {"True", "False", "raises"} :
              IF r = "raises"
              THEN callback_raises(err, "AcceptWaveform")
              ELSE /\ cbFinal' = (r = "True")
                   /\ cb' = "read"
                   /\ stderr' = err
                   /\ UNCHANGED <<cbResult, cbText, cbSeen, outcomes, faults, shown>>
                   /\ UNCHANGED <<stream, stdout>>

\* the function as it would be with a 'return' after the status print
audio_callback_body_return_on_status(status) ==
    IF status
    THEN /\ stderr' = Append(stderr, StatusLine)
         /\ cb' = "idle"
         /\ cbCalls' = NoCalls
         /\ UNCHANGED <<cbFinal, cbResult, cbText, cbSeen, fed, outcomes, faults, shown>>
         /\ UNCHANGED <<stream, stdout>>
    ELSE AcceptWaveform(stderr)

\* if status: print(f"SoundDevice Status: {status}", file=sys.stderr)
\* and the statements after it, whatever status is
audio_callback_body(status) ==
    AcceptWaveform(IF status THEN Append(stderr, StatusLine) ELSE stderr)

\* the driver delivers a block: audio_callback(indata, frames, time, status)
\* runs up to the test of AcceptWaveform's answer
audio_callback_accept ==
    /\ stream = "active"
    /\ DriverSerial
    /\ arrived < MaxChunks
    /\ arrived' = arrived + 1
    /\ cbChunk' = arrived + 1
    /\ \E status \in {FALSE} \cup {f \in {TRUE} : Flagged < MaxFlagged} :
         audio_callback_body(status)
    /\ UNCHANGED mainVars

\* the text as it would be without .strip()
ResultText_unstripped(raw) == raw

\* .get("text", "").strip() and .get("partial", "").strip()
ResultText(raw) == Strip(raw)

\* recognizer.Result() in the branch of a True answer, recognizer.PartialResult()
\* in the other
ReadCalls(calls, final) ==
    IF final THEN [calls EXCEPT !.Result = @ + 1]
    ELSE [calls EXCEPT !.PartialResult = @ + 1]

\* result = json.loads(recognizer.Result()); text = result.get("text", "").strip()
\* partial_result = json.loads(recognizer.PartialResult());
\* partial_text = partial_result.get("partial", "").strip()
audio_callback_read ==
    /\ cb = "read"
    /\ cbCalls' = ReadCalls(cbCalls, cbFinal)
    /\ \/ \E raw \in RawTexts :
            /\ cbResult' = raw
            /\ cbText' = ResultText(raw)
            /\ cbSeen' = fed
            /\ cb' = "present"
            /\ UNCHANGED <<cbFinal, outcomes, faults, shown, stream, stdout, stderr>>
       \/ callback_raises(stderr, IF cbFinal THEN "Result" ELSE "PartialResult")
    /\ UNCHANGED <<cbChunk, arrived, fed>>
    /\ UNCHANGED mainVars

\* sys.stdout.write('\r' + ' ' * 80 + '\r')
ClearLine(t) == Write(Called(t), <<CR>> \o Spaces(PadWidth) \o <<CR>>)

\* sys.stdout.write('\r[Listening... Speak now]'.ljust(80) + '\r')
ResetPrompt(t) == Write(Called(t), LJust(<<CR>> \o Prompt, PadWidth) \o <<CR>>)

\* the branch as it would be without 'if text:'
PresentFinal_unconditional(t, text) ==
    ResetPrompt(PrintLine(ClearLine(t), TranscriptionPrefix \o text))

\* the branch taken when AcceptWaveform returned True
PresentFinal(t, text) ==
    ResetPrompt(IF text # <<>>
                THEN PrintLine(ClearLine(t), TranscriptionPrefix \o text)
                ELSE t)

\* display_text = f"[Speaking... {partial_text}]"
DisplayText(partial_text) == SpeakingPrefix \o partial_text \o << "]" >>

\* the branch as it would be without 'if partial_text:'
PresentPartial_unconditional(t, partial_text) ==
    Write(Called(t), <<CR>> \o LJust(DisplayText(partial_text), PadWidth) \o <<CR>>)

\* the branch taken when AcceptWaveform returned False
PresentPartial(t, partial_text) ==
    IF partial_text # <<>>
    THEN Write(Called(t), <<CR>> \o LJust(DisplayText(partial_text), PadWidth) \o <<CR>>)
    ELSE t

\* the text the callback puts on the status line, if it writes one
StatusWrite(final, text) ==
    IF final THEN [text |-> Prompt, by |-> "audio_callback"]
    ELSE IF text # <<>> THEN [text |-> DisplayText(text), by |-> "audio_callback"]
    ELSE shown

\* the writes to stdout that end the callback
audio_callback_present ==
    /\ cb = "present"
    /\ stdout' = IF cbFinal THEN PresentFinal(stdout, cbText)
                 ELSE PresentPartial(stdout, cbText)
    /\ shown' = StatusWrite(cbFinal, cbText)
    /\ outcomes' = Append(outcomes, [final |-> cbFinal, raw |-> cbResult,
                                     chunk |-> cbChunk, seen |-> cbSeen, calls |-> cbCalls,
                                     writes |-> stdout'.writes - stdout.writes])
    /\ cb' = "idle"
    /\ UNCHANGED <<cbFinal, cbResult, cbText, cbChunk, cbCalls, cbSeen, arrived, fed>>
    /\ UNCHANGED <<faults, stream, stderr>>
    /\ UNCHANGED mainVars

audio_callback ==
    \/ audio_callback_accept
    \/ audio_callback_read
    \/ audio_callback_present

-----------------------------------------------------------------------------

Next ==
    \/ Imports
    \/ FromImport
    \/ main
    \/ KeyboardInterrupt
    \/ audio_callback

Spec == Init /\ [][Next]_vars

-----------------------------------------------------------------------------
(* Vocabulary of the properties *)

Range(f) == {f[i] : i \in DOMAIN f}

Last(q) == q[Len(q)]

StartsWith(s, p) == Len(s) >= Len(p) /\ SubSeq(s, 1, Len(p)) = p

\* "TRANSCRIPTION:", the mark of a permanent transcript line
TranscriptionTag == SubSeq(TranscriptionPrefix, 1, Len(TranscriptionPrefix) - 1)

\* the lines main and the module level print
MainLines ==
    {<<>>} \cup {<<m[Len(m)]>> : m \in Range(ImportMessages) \cup Range(BannerMessages)
                     \cup Range(LoadFailedMessages) \cup Range(LoadedMessages)
                     \cup Range(OpenFailedMessages)}

\* the lines audio_callback wrote to stdout and ended with a line feed
CallbackLines == SelectSeq(stdout.lines, LAMBDA r : r \notin MainLines)

\* the finished lines on the terminal that audio_callback completed
CallbackRows == SelectSeq(stdout.rows, LAMBDA r : r \notin MainLines)

\* the finished lines on the terminal that are transcript lines
TranscriptRows == SelectSeq(stdout.rows, LAMBDA r : StartsWith(r, TranscriptionTag))

\* the processed blocks the decoder called Final, and those among them whose
\* stripped text is not empty
Finals == SelectSeq(outcomes, LAMBDA o : o.final)
FinalsWithText == SelectSeq(outcomes, LAMBDA o : o.final /\ Strip(o.raw) # <<>>)

\* the transcript line of the k-th Final with text
TranscriptOf(k) == TranscriptionPrefix \o Strip(FinalsWithText[k].raw)

\* the start of the stream on entering 'with stream' failed
StartFailed == pc = "exited" /\ stream = "open" /\ interruptedAt = "none"

\* main printed the first line of the message list ms
Reported(ms) == <<ms[1][Len(ms[1])]>> \in Range(stdout.rows)

\* an exception reached the top of a thread
Unhandled == \E x \in Range(stderr) : x[1] = "Traceback"

-----------------------------------------------------------------------------
(* C1 *)

\* C1, as stated: every block the decoder calls Final has put exactly one
\* permanent transcript line on the console, whatever its text, and after a
\* Final block the latest status write is the Listening prompt.
C1_OneLinePerFinal ==
    /\ Len(TranscriptRows) = Len(Finals)
    /\ (outcomes # <<>> /\ Last(outcomes).final) => shown.text = Prompt

\* C1, amended: a Final block puts exactly one permanent transcript line on
\* the console when its stripped text is not empty and none when it is empty
\* (the k-th such line starts with "TRANSCRIPTION: " and the k-th text), and
\* from the end of a Final block's callback until the next block is presented
\* the latest status write is the Listening prompt and the status line
\* starts with it.
C1_OneLinePerFinalWithText ==
    /\ Len(TranscriptRows) = Len(FinalsWithText)
    /\ \A k \in 1..Len(TranscriptRows) :
         k <= Len(FinalsWithText) => StartsWith(TranscriptRows[k], TranscriptOf(k))
    /\ (outcomes # <<>> /\ Last(outcomes).final) =>
         /\ shown.text = Prompt
         /\ StartsWith(stdout.cur, Prompt)

\* a Final with text and a Final without text were presented, a Final last
C1_Witness ==
    /\ cb = "idle"
    /\ Len(FinalsWithText) >= 1
    /\ Len(Finals) > Len(FinalsWithText)
    /\ Last(outcomes).final

-----------------------------------------------------------------------------
(* C2 *)

\* C2: whenever the latest status write is one of audio_callback, the line
\* the user sees is exactly the text of that write.
C2_NoStaleCharacters ==
    shown.by = "audio_callback" => Visible(stdout) = shown.text

-----------------------------------------------------------------------------
(* C3 *)

\* the outcomes so far are Partial("")*, Partial("hello"),
\* Partial("hello world"), Final("hello world")
Scripted ==
    /\ Len(outcomes) >= 3
    /\ LET n == Len(outcomes)
       IN /\ outcomes[n].final /\ Strip(outcomes[n].raw) = HelloWorld
          /\ ~outcomes[n - 1].final /\ Strip(outcomes[n - 1].raw) = HelloWorld
          /\ ~outcomes[n - 2].final /\ Strip(outcomes[n - 2].raw) = Hello
          /\ \A i \in 1..(n - 3) : ~outcomes[i].final /\ Strip(outcomes[i].raw) = <<>>

\* C3: the lines audio_callback writes to stdout and ends with a line feed
\* are exactly "TRANSCRIPTION: t", one for each Final with non-empty
\* stripped text t, in order; Partial outcomes finish no line, on stdout or
\* on the terminal; after the scripted outcomes the one line on stdout, and
\* the one finished line on the terminal, is "TRANSCRIPTION: hello world".
C3_TranscriptLines ==
    /\ CallbackLines = [k \in 1..Len(FinalsWithText) |-> TranscriptOf(k)]
    /\ Len(CallbackRows) = Len(FinalsWithText)
    /\ Scripted =>
         /\ CallbackLines = << TranscriptionPrefix \o HelloWorld >>
         /\ CallbackRows = << TranscriptionPrefix \o HelloWorld >>

\* the scripted outcomes have been presented
C3_Witness ==
    /\ cb = "idle"
    /\ Scripted

-----------------------------------------------------------------------------
(* C4 *)

\* C4: once the model load or the recognizer construction has failed, the
\* failure has been reported, main has ended, no InputStream was ever
\* constructed and audio_callback never ran.
C4_NoStreamAfterLoadFailure ==
    e \in {"Model raises", "KaldiRecognizer raises"} =>
        /\ Reported(LoadFailedMessages)
        /\ pc = "exited"
        /\ stream = "none"
        /\ closeCalls = 0
        /\ cb = "idle" /\ outcomes = <<>> /\ faults = 0

\* the model load failed and main has ended
C4_Witness ==
    /\ e = "Model raises"
    /\ pc = "exited"
    /\ recognizer = "None"

-----------------------------------------------------------------------------
(* C5 *)

\* C5: when the InputStream constructor raises or the start of the stream
\* raises, main has reported the stream error, no exception went unhandled,
\* model and recognizer are loaded and audio_callback never ran.
C5_StreamErrorHandled ==
    (e = "InputStream raises" \/ StartFailed) =>
        /\ Reported(OpenFailedMessages)
        /\ ~Unhandled
        /\ model = "loaded" /\ recognizer = "KaldiRecognizer"
        /\ cb = "idle" /\ outcomes = <<>> /\ faults = 0

-----------------------------------------------------------------------------
(* C6 *)

\* C6: a process that ended because the model load, the recognizer
\* construction, the InputStream constructor or the start of the stream
\* failed ended with a non-zero exit status.
C6_NonZeroOnStartupFailure ==
    (pc = "exited" /\ (e # "none" \/ StartFailed)) => exitCode # <<0>>

-----------------------------------------------------------------------------
(* C7 *)

\* C7: a process ended by Ctrl+C in the keep-alive loop ended with exit
\* status 0.
C7_ZeroOnInterrupt ==
    (pc = "exited" /\ interruptedAt = "while") => exitCode = <<0>>

-----------------------------------------------------------------------------
(* C8 *)

\* C8: the stream is never closed more than once, and a process ended by
\* Ctrl+C in the keep-alive loop has closed it exactly once.
C8_ClosedExactlyOnce ==
    /\ closeCalls <= 1
    /\ (pc = "exited" /\ interruptedAt = "while") =>
          closeCalls = 1 /\ stream = "closed"

\* Ctrl+C arrived in the keep-alive loop after blocks were processed, and
\* the process has ended
C8_Witness ==
    /\ pc = "exited"
    /\ interruptedAt = "while"
    /\ outcomes # <<>>

-----------------------------------------------------------------------------
(* C9 *)

\* C9: a process that ended after the InputStream was constructed has closed
\* the stream.
C9_ClosedOnEveryExit ==
    (pc = "exited" /\ stream # "none") => stream = "closed"

-----------------------------------------------------------------------------
(* C10 *)

\* C10: no exception of the recognizer leaves audio_callback, and none ends
\* the delivery of blocks.
C10_FaultContained ==
    /\ faults = 0
    /\ stream # "aborted"

-----------------------------------------------------------------------------
(* C11 *)

\* C11: every block that carried a status flag has its status on stderr and
\* was fed to the recognizer all the same (each delivered block is fed, and
\* each is presented, has faulted in the recognizer, or is in flight), and
\* with flagged blocks among them the lines audio_callback finished on stdout
\* are still exactly the transcript lines of the Finals with text.
C11_FlaggedBlockProcessed ==
    /\ Flagged <= fed
    /\ fed = arrived
    /\ arrived = Len(outcomes) + faults + (IF cb = "idle" THEN 0 ELSE 1)
    /\ Flagged >= 1 =>
         CallbackLines = [k \in 1..Len(FinalsWithText) |-> TranscriptOf(k)]

\* the only block delivered carried a status flag and was presented as a
\* Final with text
C11_Witness ==
    /\ Flagged = 1
    /\ cb = "idle"
    /\ arrived = 1
    /\ Len(outcomes) = 1
    /\ Len(FinalsWithText) = 1

-----------------------------------------------------------------------------
(* C12 *)

\* the process ended in the module's imports
ImportFailed ==
    /\ pc = "exited"
    /\ interruptedAt = "none"
    /\ ~Reported(BannerMessages)

\* the process ended in the module's imports for want of the vosk package
VoskUnavailable ==
    /\ ImportFailed
    /\ <<"Traceback", NoSounddevice>> \notin Range(stderr)

\* C12: a process that ended because the vosk package could not be imported
\* has printed 'Please run: pip install vosk' and ended with a non-zero exit
\* status, with no model loaded and no stream constructed.
C12_RemediationPrinted ==
    VoskUnavailable =>
        /\ ImportMessages[2] \in Range(stdout.rows)
        /\ exitCode # <<0>>
        /\ model = "unloaded"
        /\ stream = "none"

-----------------------------------------------------------------------------
(* C13 *)

\* the recognizer calls of a block: one AcceptWaveform, then Result alone
\* after a True answer and PartialResult alone after a False one
OneRead(calls, final) ==
    /\ calls.AcceptWaveform = 1
    /\ calls.Result = (IF final THEN 1 ELSE 0)
    /\ calls.PartialResult = (IF final THEN 0 ELSE 1)

-----------------------------------------------------------------------------
(* C14 *)

-----------------------------------------------------------------------------
(* C15 *)

\* C15: whenever an InputStream exists the model is loaded and the global
\* recognizer is the constructed KaldiRecognizer (so no step of main after
\* the construction leaves another value in it), every block delivered
\* found it constructed, and no callback failed on a None recognizer.
C15_RecognizerBeforeStream ==
    /\ stream # "none" => model = "loaded" /\ recognizer = "KaldiRecognizer"
    /\ (arrived > 0 \/ cb # "idle") => recognizer = "KaldiRecognizer"
    /\ fed = arrived
    /\ <<"Traceback", "AttributeError">> \notin Range(stderr)

\* the stream was started and a block is in the recognizer's hands
C15_Witness ==
    /\ stream = "active"
    /\ cb = "read"
    /\ recognizer = "KaldiRecognizer"

-----------------------------------------------------------------------------
(* C16 *)

\* C16: the step of audio_callback that presents a Final whose stripped text
\* is empty finishes no line on stdout or on the terminal, leaves the
\* transcript lines and stderr as they were, raises nothing, and makes one
\* write, after which the status line starts with the Listening prompt.
C16_EmptyFinalOnlyResetsPrompt ==
    [][(cb = "present" /\ cb' = "idle" /\ cbFinal /\ cbText = <<>>) =>
           /\ stdout'.lines = stdout.lines
           /\ stdout'.rows = stdout.rows
           /\ TranscriptRows' = TranscriptRows
           /\ stderr' = stderr
           /\ faults' = faults /\ stream' = stream
           /\ stdout'.writes = stdout.writes + 1
           /\ shown' = [text |-> Prompt, by |-> "audio_callback"]
           /\ StartsWith(stdout'.cur, Prompt)]_vars

\* a Final without text was presented last, after a transcript line
C16_Witness ==
    /\ cb = "idle"
    /\ outcomes # <<>>
    /\ Last(outcomes).final /\ Strip(Last(outcomes).raw) = <<>>
    /\ Len(TranscriptRows) >= 1

-----------------------------------------------------------------------------
(* C17 *)

\* C17: while main has yet to write its initial prompt, audio_callback has
\* written nothing to stdout.
C17_PromptFirst ==
    pc = "prompt" =>
        /\ shown.by = "none"
        /\ \A i \in 1..Len(outcomes) : outcomes[i].writes = 0

====
